---- MODULE Spec2Model ----
(***************************************************************************)
(* Incident admission (services/CreateIncidentService.py) and case         *)
(* correlation (coreFunctions/DatabaseOparations/CheckAccount.py).         *)
(*                                                                         *)
(* Spec      : NumCalls concurrent create_incident calls against one store *)
(* SpecOpen  : has_open_case_for_account over every bounded Case_details   *)
(* SpecLink  : link_accounts_from_open_cases over every bounded store      *)
(***************************************************************************)
EXTENDS Integers, Sequences, FiniteSets, TLC

\* ---------------------------------------------------------------- bounds
NumCalls == 2
MaxCases == 2

\* ---------------------------------------------------------------- values
None == "None"

Calls == 1..NumCalls

IncidentIds == {"INC100", "INC101"}

Descriptions == {"rule violated"}

\* the unchanged placeholder of a variable that a specification does not use
Unused == "unused"

VARIABLES
    pc,             \* admission: position of each call in create_incident
    client,         \* admission: the local `client` of each call
    incident_dict,  \* admission: the local `incident_dict` of each call
    new_incident,   \* admission: the local `new_incident` of each call
    same_object,    \* admission: new_incident is the object incident_dict
    resp,           \* admission: the IncidentServiceResponse being returned
    log,            \* admission: what each call has done, in order
    Incidents,      \* store: the documents of collection Incidents
    unique_index,   \* store: unique index on Incidents.Incident_Id exists
    Case_details,   \* store: the documents of collection Case_details
    op,             \* correlator: the operation that was called
    arg,            \* correlator: the incident_dict argument
    cpc,            \* correlator: position in the running operation
    cclient,        \* correlator: the local `client`
    closes,         \* correlator: number of client.close() calls so far
    queried,        \* correlator: "not issued", or how find() on Case_details ended
    ret             \* correlator: the value returned

admitVars == <<pc, client, incident_dict, new_incident, same_object, resp, log,
               Incidents, unique_index>>
corrVars == <<Case_details, op, arg, cpc, cclient, closes, queried, ret>>
vars == <<admitVars, corrVars>>

\* ------------------------------------------------------------------------
\* Helpers on sequences
\* ------------------------------------------------------------------------
RECURSIVE CountOf(_, _)
CountOf(s, e) ==
    IF s = <<>> THEN 0
    ELSE (IF Head(s) = e THEN 1 ELSE 0) + CountOf(Tail(s), e)

Has(s, e) == \E i \in 1..Len(s) : s[i] = e

\* ------------------------------------------------------------------------
\* create_incident
\* ------------------------------------------------------------------------

\* class IncidentServiceResponse
IncidentServiceResponse(success, data, error) ==
    [success |-> success, data |-> data, error |-> error]

NoResponse == [success |-> FALSE, data |-> None, error |-> [kind |-> "not returned", arg |-> None]]

\* the error values create_incident puts in a response
ConnectionErrorValue == [kind |-> "Mongo DB connection error", arg |-> None]
DuplicateKeyError(id) == [kind |-> "DuplicateKeyError", arg |-> id]
NotModifiedResponse(description) == [kind |-> "NotModifiedResponse", arg |-> description]
OtherException == [kind |-> "Exception", arg |-> None]
NoError == [kind |-> "None", arg |-> None]

\* incident.dict(): the record of the incoming incident
IncidentDict(id) ==
    [Incident_Id |-> id, Incident_Status |-> None,
     Status_Description |-> None, updatedAt |-> None]

NoDict == IncidentDict(None)

\* get_modified_incident_dict(incident_dict): every record the filter may
\* return for d.  It always carries Incident_Status; an "Error" record carries
\* a Status_Description; the filter may rewrite Incident_Id.
FilterOutputs(d) ==
    { [d EXCEPT !.Incident_Id = i, !.Incident_Status = "Success"] : i \in IncidentIds }
    \cup
    { [d EXCEPT !.Incident_Id = i, !.Incident_Status = "Error", !.Status_Description = s] :
        i \in IncidentIds, s \in Descriptions }

\* the outcomes of the connection block, lines 55-71
ConnectOutcomes == {"config raises", "MongoClient raises", "ping raises", "connected"}

\* the unique index built on the wrong key, updatedAt
InsertViolatesIndex_wrongKey(docs, unique, doc) ==
    unique /\ \E i \in 1..Len(docs) : docs[i].updatedAt = doc.updatedAt

\* collection.insert_one(doc) against the unique index: the key is taken
InsertViolatesIndex(docs, unique, doc) ==
    unique /\ \E i \in 1..Len(docs) : docs[i].Incident_Id = doc.Incident_Id

\* two stored documents share an Incident_Id
HasDuplicateKey(docs) ==
    \E i, j \in 1..Len(docs) : i # j /\ docs[i].Incident_Id = docs[j].Incident_Id

\* the document insert_one stores for record d, inserted by call p
Document(d, p) ==
    [Incident_Id |-> d.Incident_Id, updatedAt |-> d.updatedAt, oid |-> p]

\* the datetime.now() of call p
Now(p) == ToString(p)

InitAdmit ==
    /\ pc = [p \in Calls |-> "idle"]
    /\ client = [p \in Calls |-> None]
    /\ incident_dict = [p \in Calls |-> NoDict]
    /\ new_incident = [p \in Calls |-> NoDict]
    /\ same_object = [p \in Calls |-> FALSE]
    /\ resp = [p \in Calls |-> NoResponse]
    /\ log = [p \in Calls |-> <<>>]
    /\ Incidents = <<>>
    /\ unique_index = FALSE

IdleCorr ==
    /\ Case_details = <<>>
    /\ op = Unused
    /\ arg = Unused
    /\ cpc = Unused
    /\ cclient = None
    /\ closes = 0
    /\ queried = "not issued"
    /\ ret = "unset"

Init == InitAdmit /\ IdleCorr

\* a return statement inside try/except: the response is fixed, finally runs next
Return(p, r) ==
    /\ resp' = [resp EXCEPT ![p] = r]
    /\ pc' = [pc EXCEPT ![p] = "finally"]

\* the except clauses without the final `except Exception`
Except_noGeneric(p, e) ==
    IF e.kind = "DuplicateKeyError"
    THEN Return(p, IncidentServiceResponse(FALSE, None, e))
    ELSE IF e.kind = "NotModifiedResponse"
    THEN Return(p, IncidentServiceResponse(FALSE, None, e))
    ELSE Return(p, NoResponse)

\* lines 100-116: the except clauses of the inner try, for exception e
Except(p, e) ==
    IF e.kind = "DuplicateKeyError"
    THEN Return(p, IncidentServiceResponse(FALSE, None, e))
    ELSE IF e.kind = "NotModifiedResponse"
    THEN Return(p, IncidentServiceResponse(FALSE, None, e))
    ELSE Return(p, IncidentServiceResponse(FALSE, None, e))

\* the connection block whose except clause logs and does not return
Connect_noReturn(p) ==
    /\ pc[p] = "idle"
    /\ \E id \in IncidentIds, o \in ConnectOutcomes :
        /\ incident_dict' = [incident_dict EXCEPT ![p] = IncidentDict(id)]
        /\ client' = [client EXCEPT ![p] = IF o \in {"ping raises", "connected"}
                                            THEN "open" ELSE None]
        /\ log' = [log EXCEPT ![p] = IF o = "connected" THEN <<"client">>
                                      ELSE IF o = "ping raises"
                                      THEN <<"client", "connect failed">>
                                      ELSE <<"connect failed">>]
        /\ pc' = [pc EXCEPT ![p] = "else"]
        /\ UNCHANGED resp
    /\ UNCHANGED <<new_incident, same_object, Incidents, unique_index, corrVars>>

\* lines 54-71: client = None, then the connection block
Connect(p) ==
    /\ pc[p] = "idle"
    /\ \E id \in IncidentIds, o \in ConnectOutcomes :
        /\ incident_dict' = [incident_dict EXCEPT ![p] = IncidentDict(id)]
        /\ IF o = "connected"
           THEN /\ client' = [client EXCEPT ![p] = "open"]
                /\ log' = [log EXCEPT ![p] = Append(@, "client")]
                /\ pc' = [pc EXCEPT ![p] = "else"]
                /\ UNCHANGED resp
           ELSE /\ client' = [client EXCEPT ![p] = IF o = "ping raises" THEN "open" ELSE None]
                /\ log' = [log EXCEPT ![p] = IF o = "ping raises"
                                              THEN <<"client", "connect failed">>
                                              ELSE <<"connect failed">>]
                /\ Return(p, IncidentServiceResponse(FALSE, None, ConnectionErrorValue))
    /\ UNCHANGED <<new_incident, same_object, Incidents, unique_index, corrVars>>

\* the rejection test reading incident_dict instead of new_incident
ApplyFilter_testsInput(p) ==
    /\ pc[p] = "else"
    /\ LET d == [incident_dict[p] EXCEPT !.Incident_Status = "Success"] IN
       \/ /\ incident_dict' = [incident_dict EXCEPT ![p] = d]
          /\ log' = [log EXCEPT ![p] = Append(@, "filter")]
          /\ Except(p, OtherException)
          /\ UNCHANGED <<new_incident, same_object>>
       \/ \E out \in FilterOutputs(d), inplace \in BOOLEAN :
          /\ incident_dict' = [incident_dict EXCEPT ![p] = IF inplace THEN out ELSE d]
          /\ new_incident' = [new_incident EXCEPT ![p] = out]
          /\ same_object' = [same_object EXCEPT ![p] = inplace]
          /\ log' = [log EXCEPT ![p] = Append(@, "filter")]
          /\ IF incident_dict'[p].Incident_Status = "Error"
             THEN Except(p, NotModifiedResponse(out.Status_Description))
             ELSE /\ pc' = [pc EXCEPT ![p] = "index"]
                  /\ UNCHANGED resp
    /\ UNCHANGED <<client, Incidents, unique_index, corrVars>>

\* the accepted record going to insert_one with no create_index
ApplyFilter_skipsIndex(p) ==
    /\ pc[p] = "else"
    /\ LET d == [incident_dict[p] EXCEPT !.Incident_Status = "Success"] IN
       \/ /\ incident_dict' = [incident_dict EXCEPT ![p] = d]
          /\ log' = [log EXCEPT ![p] = Append(@, "filter")]
          /\ Except(p, OtherException)
          /\ UNCHANGED <<new_incident, same_object>>
       \/ \E out \in FilterOutputs(d), inplace \in BOOLEAN :
          /\ incident_dict' = [incident_dict EXCEPT ![p] = IF inplace THEN out ELSE d]
          /\ new_incident' = [new_incident EXCEPT ![p] = out]
          /\ same_object' = [same_object EXCEPT ![p] = inplace]
          /\ log' = [log EXCEPT ![p] = Append(@, "filter")]
          /\ IF out.Incident_Status = "Error"
             THEN Except(p, NotModifiedResponse(out.Status_Description))
             ELSE /\ pc' = [pc EXCEPT ![p] = "insert"]
                  /\ UNCHANGED resp
    /\ UNCHANGED <<client, Incidents, unique_index, corrVars>>

\* lines 77-86: the record, the filter, the rejection test
ApplyFilter(p) ==
    /\ pc[p] = "else"
    /\ LET d == [incident_dict[p] EXCEPT !.Incident_Status = "Success"] IN
       \/ \* the filter raises
          /\ incident_dict' = [incident_dict EXCEPT ![p] = d]
          /\ log' = [log EXCEPT ![p] = Append(@, "filter")]
          /\ Except(p, OtherException)
          /\ UNCHANGED <<new_incident, same_object>>
       \/ \E out \in FilterOutputs(d), inplace \in BOOLEAN :
          /\ incident_dict' = [incident_dict EXCEPT ![p] = IF inplace THEN out ELSE d]
          /\ new_incident' = [new_incident EXCEPT ![p] = out]
          /\ same_object' = [same_object EXCEPT ![p] = inplace]
          /\ log' = [log EXCEPT ![p] = Append(@, "filter")]
          /\ IF out.Incident_Status = "Error"
             THEN Except(p, NotModifiedResponse(out.Status_Description))
             ELSE /\ pc' = [pc EXCEPT ![p] = "index"]
                  /\ UNCHANGED resp
    /\ UNCHANGED <<client, Incidents, unique_index, corrVars>>

\* create_index("Incident_Id") without unique=True
EnsureIndex_notUnique(p) ==
    /\ pc[p] = "index"
    /\ log' = [log EXCEPT ![p] = Append(@, "create_index")]
    /\ pc' = [pc EXCEPT ![p] = "insert"]
    /\ UNCHANGED <<resp, unique_index>>
    /\ UNCHANGED <<client, incident_dict, new_incident, same_object, Incidents, corrVars>>

\* lines 89-90: collection.create_index("Incident_Id", unique=True)
EnsureIndex(p) ==
    /\ pc[p] = "index"
    /\ log' = [log EXCEPT ![p] = Append(@, "create_index")]
    /\ \/ IF HasDuplicateKey(Incidents)
          THEN \* the index cannot be built over the stored documents
               /\ UNCHANGED unique_index
               /\ Except(p, DuplicateKeyError(None))
          ELSE /\ unique_index' = TRUE
               /\ pc' = [pc EXCEPT ![p] = "insert"]
               /\ UNCHANGED resp
       \/ \* the store raises
          /\ UNCHANGED unique_index
          /\ Except(p, OtherException)
    /\ UNCHANGED <<client, incident_dict, new_incident, same_object, Incidents, corrVars>>

\* lines 92-104, 112-116: the stamp, insert_one, the response
Insert(p) ==
    /\ pc[p] = "insert"
    /\ LET stamped == [incident_dict[p] EXCEPT !.updatedAt = Now(p)]
           doc == IF same_object[p] THEN stamped ELSE new_incident[p]
       IN
       /\ incident_dict' = [incident_dict EXCEPT ![p] = stamped]
       /\ new_incident' = [new_incident EXCEPT ![p] = doc]
       /\ \/ \* the store raises something else
             /\ log' = [log EXCEPT ![p] = Append(@, "insert_one")]
             /\ UNCHANGED Incidents
             /\ Except(p, OtherException)
          \/ IF InsertViolatesIndex(Incidents, unique_index, doc)
             THEN /\ log' = [log EXCEPT ![p] = Append(@, "insert_one")]
                  /\ UNCHANGED Incidents
                  /\ Except(p, DuplicateKeyError(doc.Incident_Id))
             ELSE /\ log' = [log EXCEPT ![p] = Append(Append(@, "insert_one"), "inserted")]
                  /\ Incidents' = Append(Incidents, Document(doc, p))
                  /\ Return(p, IncidentServiceResponse(TRUE, stamped.Incident_Id, NoError))
    /\ UNCHANGED <<client, same_object, unique_index, corrVars>>

\* the close at the end of the success path only, not in a finally clause
Finally_closeOnSuccess(p) ==
    /\ pc[p] = "finally"
    /\ IF client[p] # None /\ resp[p].success
       THEN /\ client' = [client EXCEPT ![p] = "closed"]
            /\ log' = [log EXCEPT ![p] = Append(@, "close")]
       ELSE UNCHANGED <<client, log>>
    /\ pc' = [pc EXCEPT ![p] = "done"]
    /\ UNCHANGED <<incident_dict, new_incident, same_object, resp, Incidents,
                   unique_index, corrVars>>

\* lines 118-122: finally, then the pending return takes effect
Finally(p) ==
    /\ pc[p] = "finally"
    /\ IF client[p] # None
       THEN /\ client' = [client EXCEPT ![p] = "closed"]
            /\ log' = [log EXCEPT ![p] = Append(@, "close")]
       ELSE UNCHANGED <<client, log>>
    /\ pc' = [pc EXCEPT ![p] = "done"]
    /\ UNCHANGED <<incident_dict, new_incident, same_object, resp, Incidents,
                   unique_index, corrVars>>

create_incident(p) ==
    \/ Connect(p)
    \/ ApplyFilter(p)
    \/ EnsureIndex(p)
    \/ Insert(p)
    \/ Finally(p)

Next == \E p \in Calls : create_incident(p)

Spec == Init /\ [][Next]_vars

\* ------------------------------------------------------------------------
\* CheckAccount.py: the documents of Case_details and the incident argument
\* ------------------------------------------------------------------------

Accounts == {"AC1", "AC2", "AC3", None}

CustomerRefs == {"CR1", "CR2", None}

\* line 67: the statuses has_open_case_for_account excludes
TerminalStatuses == {"Case Close", "Write-Off", "Abandoned", "Withdraw"}

\* str.lower() on the status strings of the model
Lower(s) ==
    CASE s = "Open" -> "open"
      [] s = "Close" -> "close"
      [] s = "Case Close" -> "case close"
      [] s = "case close" -> "case close"
      [] s = "Write-Off" -> "write-off"
      [] s = "Abandoned" -> "abandoned"
      [] s = "Withdraw" -> "withdraw"
      [] s = "" -> ""

\* a document of Case_details; None stands for a key that is absent or null.
\* One account number per case, held under the key account_no that
\* has_open_case_for_account queries and the key Account_Num that
\* link_accounts_from_open_cases reads.
Case(account, ref, status) ==
    [account_no |-> account, Account_Num |-> account,
     customer_ref |-> ref, case_current_status |-> status]

\* the incident_dict argument; Link_Accounts is a list or something else.
\* customer_ref is the value under Customer_Details, None when that key or
\* the inner key is absent or the inner value is null.
Incident(account, ref, links) ==
    [Account_Num |-> account, details_null |-> FALSE, customer_ref |-> ref,
     Link_Accounts |-> links]

\* an incident_dict whose key Customer_Details is present with value null
IncidentNullDetails(account, links) ==
    [Account_Num |-> account, details_null |-> TRUE, customer_ref |-> None,
     Link_Accounts |-> links]

List(items) == [is_list |-> TRUE, items |-> items]
NotAList == [is_list |-> FALSE, items |-> <<>>]

SeqsUpTo(S, n) == UNION { [1..k -> S] : k \in 0..n }

\* a query value against a document value: null matches null or absent
Matches(docValue, queryValue) == docValue = queryValue

\* Python truthiness of an account number
Truthy(x) == x # None /\ x # ""

CorrConnectOutcomes == {"config raises", "MongoClient raises", "ping raises", "connected"}

\* the close at the end of the else block only, not in a finally clause
CorrFinally_closeInElse ==
    /\ cpc = "finally"
    /\ IF cclient # None /\ queried = "answered"
       THEN cclient' = "closed" /\ closes' = closes + 1
       ELSE UNCHANGED <<cclient, closes>>
    /\ cpc' = "done"
    /\ UNCHANGED <<Case_details, op, arg, queried, ret, admitVars>>

\* lines 85-89 and 159-163: finally, then the pending return takes effect
CorrFinally ==
    /\ cpc = "finally"
    /\ IF cclient # None
       THEN cclient' = "closed" /\ closes' = closes + 1
       ELSE UNCHANGED <<cclient, closes>>
    /\ cpc' = "done"
    /\ UNCHANGED <<Case_details, op, arg, queried, ret, admitVars>>

\* ------------------------------------------------------------------------
\* has_open_case_for_account
\* ------------------------------------------------------------------------

OpenStatuses == TerminalStatuses \cup {"Open", "Close", "case close", None}

\* the state in which the called operation starts
Called(name) ==
    /\ op = name
    /\ cpc = "start"
    /\ cclient = None
    /\ closes = 0
    /\ queried = "not issued"
    /\ ret = "unset"

OpenInputs ==
    /\ Case_details \in SeqsUpTo({Case(a, "CR1", s) : a \in Accounts, s \in OpenStatuses},
                                 MaxCases)
    /\ arg \in {Incident(a, "CR1", List(<<>>)) : a \in Accounts}

InitOpen ==
    /\ InitAdmit
    /\ OpenInputs
    /\ op = "has_open_case_for_account"
    /\ cpc = "start"
    /\ cclient = None
    /\ closes = 0
    /\ queried = "not issued"
    /\ ret = "unset"

\* the query without its account_no condition
OpenCaseQuery_anyAccount(docs, incident) ==
    SelectSeq(docs, LAMBDA c : c.case_current_status \notin TerminalStatuses)

\* lines 63-69: the documents the query selects ($nin also selects a
\* document that has no case_current_status)
OpenCaseQuery(docs, incident) ==
    SelectSeq(docs, LAMBDA c :
        /\ Matches(c.account_no, incident.Account_Num)
        /\ c.case_current_status \notin TerminalStatuses)

\* lines 39-55: the connection block; its except clause logs and falls
\* through to finally, so the function returns None
OpenConnect ==
    /\ op = "has_open_case_for_account"
    /\ cpc = "start"
    /\ \E o \in CorrConnectOutcomes :
        /\ cclient' = IF o \in {"ping raises", "connected"} THEN "open" ELSE None
        /\ IF o = "connected"
           THEN cpc' = "else" /\ UNCHANGED ret
           ELSE cpc' = "finally" /\ ret' = "None"
    /\ UNCHANGED <<Case_details, op, arg, closes, queried, admitVars>>

\* lines 58-83: the query and the count
OpenQuery ==
    /\ op = "has_open_case_for_account"
    /\ cpc = "else"
    /\ \/ \* find raises
          /\ queried' = "raised"
          /\ ret' = "False"
       \/ LET Count_of_active_cases == Len(OpenCaseQuery(Case_details, arg)) IN
          /\ queried' = "answered"
          /\ ret' = IF Count_of_active_cases > 0 THEN "True" ELSE "False"
    /\ cpc' = "finally"
    /\ UNCHANGED <<Case_details, op, arg, cclient, closes, admitVars>>

has_open_case_for_account ==
    \/ OpenConnect
    \/ OpenQuery
    \/ CorrFinally

SpecOpen == InitOpen /\ [][has_open_case_for_account]_vars

\* ------------------------------------------------------------------------
\* link_accounts_from_open_cases
\* ------------------------------------------------------------------------

\* one status of each kind the loop can tell apart: an ordinary one, one that
\* lowercases to "close", one of the terminal values of line 67, and none
LinkStatuses == {"Open", "Close", "Case Close", None}

LinkCaseRefs == {"CR1", None}

\* Link_Accounts of the incoming incident: not a list, empty, populated, and
\* populated by the caller with the same account twice
InitialLinks ==
    {NotAList, List(<<>>), List(<<[Account_Num |-> "AC2"]>>),
     List(<<[Account_Num |-> "AC2"], [Account_Num |-> "AC2"]>>)}

LinkInputs ==
    /\ Case_details \in SeqsUpTo({Case(a, r, s) : a \in Accounts, r \in LinkCaseRefs,
                                                  s \in LinkStatuses}, MaxCases)
    /\ arg \in {Incident("AC1", r, l) : r \in CustomerRefs, l \in InitialLinks}
              \cup {IncidentNullDetails("AC1", l) : l \in InitialLinks}

InitLink ==
    /\ InitAdmit
    /\ LinkInputs
    /\ op = "link_accounts_from_open_cases"
    /\ cpc = "start"
    /\ cclient = None
    /\ closes = 0
    /\ queried = "not issued"
    /\ ret = "unset"

\* line 131: case.get("case_current_status", "").lower()
CaseStatus(c) ==
    Lower(IF c.case_current_status = None THEN "" ELSE c.case_current_status)

\* the membership test reading a key the entries do not have
AlreadyLinked_wrongKey(links, account_num) ==
    \E i \in 1..Len(links) : None = account_num

\* the membership test looking at the last entry only
AlreadyLinked_lastOnly(links, account_num) ==
    links # <<>> /\ links[Len(links)].Account_Num = account_num

\* lines 138-141: any(acc.get("Account_Num") == account_num for acc in links)
AlreadyLinked(links, account_num) ==
    \E i \in 1..Len(links) : links[i].Account_Num = account_num

\* the loop without the already_linked test
RECURSIVE LinkLoop_noTest(_, _)
LinkLoop_noTest(case_documents, links) ==
    IF case_documents = <<>> THEN links
    ELSE LET case == Head(case_documents)
             account_num == case.Account_Num
             next == IF CaseStatus(case) # "close" /\ Truthy(account_num)
                     THEN Append(links, [Account_Num |-> account_num])
                     ELSE links
         IN LinkLoop_noTest(Tail(case_documents), next)

\* lines 130-148: the loop over the case documents, links being Link_Accounts
RECURSIVE LinkLoop(_, _)
LinkLoop(case_documents, links) ==
    IF case_documents = <<>> THEN links
    ELSE LET case == Head(case_documents)
             account_num == case.Account_Num
             next == IF /\ CaseStatus(case) # "close"
                        /\ Truthy(account_num)
                        /\ ~AlreadyLinked(links, account_num)
                     THEN Append(links, [Account_Num |-> account_num])
                     ELSE links
         IN LinkLoop(Tail(case_documents), next)

\* line 127: collection.find({"customer_ref": customer_ref})
CustomerCaseQuery(docs, customer_ref) ==
    SelectSeq(docs, LAMBDA c : Matches(c.customer_ref, customer_ref))

\* lines 123-124: Link_Accounts, replaced by [] when it is not a list
ListItems(incident) ==
    IF incident.Link_Accounts.is_list THEN incident.Link_Accounts.items ELSE <<>>

\* lines 119-153: the incident after a query that the store answered
LinkedIncident(docs, incident) ==
    LET customer_ref == incident.customer_ref IN
    [incident EXCEPT !.Link_Accounts =
        List(LinkLoop(CustomerCaseQuery(docs, customer_ref), ListItems(incident)))]

\* lines 100-112: the connection block; its except clause returns False
LinkConnect ==
    /\ op = "link_accounts_from_open_cases"
    /\ cpc = "start"
    /\ \E o \in CorrConnectOutcomes :
        /\ cclient' = IF o \in {"ping raises", "connected"} THEN "open" ELSE None
        /\ IF o = "connected"
           THEN cpc' = "else" /\ UNCHANGED ret
           ELSE cpc' = "finally" /\ ret' = "False"
    /\ UNCHANGED <<Case_details, op, arg, closes, queried, admitVars>>

\* lines 115-157: Link_Accounts made a list, the query, the loop.  The
\* cursor reads the bounded collection in one batch, so a failing query
\* raises before the first document is seen.
LinkBody ==
    /\ op = "link_accounts_from_open_cases"
    /\ cpc = "else"
    /\ IF arg.details_null
       THEN \* line 120: None.get raises, lines 155-157 return the incident
            UNCHANGED <<arg, queried>>
       ELSE \/ \* find raises
               /\ queried' = "raised"
               /\ arg' = [arg EXCEPT !.Link_Accounts = List(ListItems(arg))]
            \/ /\ queried' = "answered"
               /\ arg' = LinkedIncident(Case_details, arg)
    /\ ret' = "incident_dict"
    /\ cpc' = "finally"
    /\ UNCHANGED <<Case_details, op, cclient, closes, admitVars>>

link_accounts_from_open_cases ==
    \/ LinkConnect
    \/ LinkBody
    \/ CorrFinally

SpecLink == InitLink /\ [][link_accounts_from_open_cases]_vars

\* ------------------------------------------------------------------------
\* either correlator operation, on every bounded input
\* ------------------------------------------------------------------------

InitCorr ==
    /\ InitAdmit
    /\ \/ OpenInputs /\ Called("has_open_case_for_account")
       \/ LinkInputs /\ Called("link_accounts_from_open_cases")

NextCorr ==
    \/ OpenConnect
    \/ OpenQuery
    \/ LinkConnect
    \/ LinkBody
    \/ CorrFinally

SpecCorr == InitCorr /\ [][NextCorr]_vars

\* ------------------------------------------------------------------------
\* Properties of create_incident (specification Spec)
\* ------------------------------------------------------------------------

\* the documents of Incidents that call p inserted
InsertedBy(p) == SelectSeq(Incidents, LAMBDA d : d.oid = p)

\* the documents of Incidents stored under identifier id
StoredUnder(id) == SelectSeq(Incidents, LAMBDA d : d.Incident_Id = id)

Returned(p) == pc[p] = "done"

\* C1: a call that created a client closes it exactly once before it returns
\* (never more than once at any point), a call that created none closes
\* nothing, and no client is open after a return.
C1_ClientClosedExactlyOnce ==
    \A p \in Calls :
        /\ CountOf(log[p], "client") <= 1
        /\ CountOf(log[p], "close") <= CountOf(log[p], "client")
        /\ Returned(p) => /\ CountOf(log[p], "close") = CountOf(log[p], "client")
                          /\ client[p] # "open"
                          /\ (client[p] = "closed") = Has(log[p], "client")

\* C1 witness: one call returned after a ping failure and one after a
\* successful insert, each with its client created and closed.
C1_Witness ==
    \E p, q \in Calls :
        /\ Returned(p) /\ log[p] = <<"client", "connect failed", "close">>
        /\ Returned(q) /\ resp[q].success
        /\ client[q] = "closed" /\ CountOf(log[q], "close") = 1

\* the step in which call p runs insert_one and the store answers (it either
\* stores the document or reports the key as taken)
InsertAnswered(p) ==
    /\ pc[p] = "insert" /\ pc'[p] = "finally"
    /\ resp'[p].error.kind # "Exception"

UniqueIncidentIds ==
    \A i, j \in 1..Len(Incidents) :
        Incidents[i].Incident_Id = Incidents[j].Incident_Id => i = j

\* C2: no two documents of Incidents ever share an Incident_Id; an insert of
\* an identifier that is not stored yet succeeds and stores one document, and
\* an insert of an identifier an earlier call stored returns success=false
\* with the duplicate-key error of that identifier and leaves Incidents as it
\* was.
C2_UniqueIncidentId ==
    /\ []UniqueIncidentIds
    /\ [][\A p \in Calls : InsertAnswered(p) =>
            LET id == new_incident'[p].Incident_Id IN
            IF StoredUnder(id) # <<>>
            THEN /\ resp'[p] = IncidentServiceResponse(FALSE, None, DuplicateKeyError(id))
                 /\ Incidents' = Incidents
            ELSE /\ resp'[p].success
                 /\ Incidents' = Append(Incidents, Document(new_incident'[p], p))
         ]_vars

\* C2 witness: the first call returned success, the second call, made after
\* it with the same identifier, returned the duplicate-key error.
C2_Witness ==
    \E p, q \in Calls :
        /\ Returned(p) /\ resp[p].success
        /\ Returned(q) /\ resp[q].error = DuplicateKeyError(new_incident[p].Incident_Id)
        /\ Len(Incidents) = 1

\* the calls whose insert_one of identifier id was answered by the store
Contenders(id) ==
    { p \in Calls : /\ Has(log[p], "insert_one")
                    /\ new_incident[p].Incident_Id = id
                    /\ resp[p].error.kind # "Exception" }

\* C3: once all calls have returned, for each identifier that some calls
\* tried to insert, exactly one of these calls returned success, every other
\* one returned the duplicate-key error, and Incidents holds exactly one
\* document under that identifier.
C3_OneWinnerPerId ==
    (\A p \in Calls : Returned(p)) =>
        \A id \in IncidentIds :
            LET C == Contenders(id) IN
            /\ Len(StoredUnder(id)) = (IF C = {} THEN 0 ELSE 1)
            /\ C # {} => Cardinality({p \in C : resp[p].success}) = 1
            /\ \A p \in C :
                  \/ resp[p].success
                  \/ resp[p] = IncidentServiceResponse(FALSE, None, DuplicateKeyError(id))

\* C3 witness: two calls were in flight together (both clients open, both
\* past the filter) with the same identifier; one stored it, the other got
\* the duplicate-key error.
C3_Witness ==
    \E p, q \in Calls :
        /\ pc[p] = "finally" /\ client[p] = "open" /\ resp[p].success
        /\ pc[q] = "finally" /\ client[q] = "open"
        /\ resp[q].error = DuplicateKeyError(new_incident[p].Incident_Id)

\* C4: a call whose filter returned a record with Incident_Status "Error"
\* ensures no index, attempts no insert, stores no document, and returns
\* success=false with NotModifiedResponse carrying that record's
\* Status_Description.
C4_FilterRejectShortCircuit ==
    \A p \in Calls :
        (Has(log[p], "filter") /\ new_incident[p].Incident_Status = "Error") =>
            /\ ~Has(log[p], "create_index")
            /\ ~Has(log[p], "insert_one")
            /\ InsertedBy(p) = <<>>
            /\ pc[p] \in {"finally", "done"}
            /\ resp[p] = IncidentServiceResponse(FALSE, None,
                             NotModifiedResponse(new_incident[p].Status_Description))

\* C4 witness: a filter that returned a distinct "Error" record; the call
\* has returned and the record it was given still says "Success".
C4_Witness ==
    \E p \in Calls :
        /\ Returned(p) /\ new_incident[p].Incident_Status = "Error"
        /\ ~same_object[p] /\ incident_dict[p].Incident_Status = "Success"
        /\ resp[p].error.arg \in Descriptions

\* C5: a call whose connection block raised returns success=false with the
\* connection error, and runs no filter, no create_index and no insert_one.
C5_ConnectionFailureStops ==
    \A p \in Calls :
        Has(log[p], "connect failed") =>
            /\ ~Has(log[p], "filter")
            /\ ~Has(log[p], "create_index")
            /\ ~Has(log[p], "insert_one")
            /\ InsertedBy(p) = <<>>
            /\ pc[p] \in {"finally", "done"}
            /\ resp[p] = IncidentServiceResponse(FALSE, None, ConnectionErrorValue)

\* C5 witness: a call returned after its ping raised, while another call
\* stored a document.
C5_Witness ==
    \E p, q \in Calls :
        /\ Returned(p) /\ Has(log[p], "connect failed") /\ Has(log[p], "client")
        /\ Returned(q) /\ resp[q].success /\ Len(Incidents) = 1

\* C6: every call that has returned returned a response (nothing was raised
\* past create_incident); success=true exactly when the call stored exactly
\* one document, success=false only when it stored none; and Incidents
\* changes only by the one append of a call that returns success.
C6_ResponseMatchesStore ==
    /\ [](\A p \in Calls :
            /\ pc[p] \in {"finally", "done"} =>
                 /\ resp[p] # NoResponse
                 /\ resp[p].success = (Len(InsertedBy(p)) = 1)
                 /\ ~resp[p].success => InsertedBy(p) = <<>>
            /\ pc[p] \notin {"finally", "done"} => InsertedBy(p) = <<>>)
    /\ [][Incidents' # Incidents =>
            \E p \in Calls :
                /\ pc[p] = "insert" /\ resp'[p].success
                /\ Incidents' = Append(Incidents, Document(new_incident'[p], p))
         ]_vars

\* C6 witness: calls returned success=false from a store failure during
\* insert_one and from a filter that raised, and Incidents is empty.
C6_Witness ==
    \E p, q \in Calls :
        /\ Returned(p) /\ Has(log[p], "insert_one") /\ resp[p].error = OtherException
        /\ Returned(q) /\ ~Has(log[q], "create_index") /\ resp[q].error = OtherException
        /\ Incidents = <<>>

\* ------------------------------------------------------------------------
\* Properties of the correlator (specifications SpecOpen and SpecLink)
\* ------------------------------------------------------------------------

CaseSet == { Case_details[i] : i \in 1..Len(Case_details) }

\* the step in which has_open_case_for_account decides to return True
ReturnsTrue == cpc = "else" /\ cpc' = "finally" /\ ret' = "True"

\* the step in which link_accounts_from_open_cases ran its query and loop
LinkRan == cpc = "else" /\ cpc' = "finally" /\ queried' = "answered"

\* the account numbers the step adds to Link_Accounts
AddedAccounts ==
    LET before == IF arg.Link_Accounts.is_list THEN arg.Link_Accounts.items ELSE <<>>
        after == arg'.Link_Accounts.items
    IN { after[i].Account_Num : i \in 1..Len(after) } \
       { before[i].Account_Num : i \in 1..Len(before) }

\* C7: a case whose case_current_status is "Case Close", "Write-Off",
\* "Abandoned" or "Withdraw" is never what makes a correlator operation see
\* an open case: when has_open_case_for_account returns True the account has
\* a case with another status, and every account that
\* link_accounts_from_open_cases adds (for an incident that has a
\* customer_ref) belongs to a case of that customer with another status.
C7_TerminalNeverOpen ==
    [][ /\ ReturnsTrue =>
             \E c \in CaseSet : /\ c.account_no = arg.Account_Num
                                /\ c.case_current_status \notin TerminalStatuses
        /\ (LinkRan /\ arg.customer_ref # None) =>
             \A a \in AddedAccounts :
                 \E c \in CaseSet : /\ c.Account_Num = a
                                    /\ c.customer_ref = arg.customer_ref
                                    /\ c.case_current_status \notin TerminalStatuses
      ]_vars

\* C8: when the connection and the query succeed, the operation returns True
\* if some case with the incident's account number has a status outside the
\* terminal set (a case without a status counts as outside), and False if
\* there is no such case.
C8_OpenCaseIffNonTerminal ==
    (cpc \in {"finally", "done"} /\ queried = "answered") =>
        ret = IF \E i \in 1..Len(Case_details) :
                    /\ Case_details[i].account_no = arg.Account_Num
                    /\ ~(Case_details[i].case_current_status \in TerminalStatuses)
              THEN "True" ELSE "False"

\* C8 witness: the account has a terminal case and an open case, another
\* account has an open case too, and the operation returned True.
C8_Witness ==
    /\ cpc = "done" /\ ret = "True" /\ arg.Account_Num = "AC1"
    /\ Case_details = <<Case("AC1", "CR1", "Write-Off"), Case("AC1", "CR1", "Open")>>

\* C8 second witness: all cases of the account are terminal, another
\* account's case is open, and the operation returned False.
C8_WitnessFalse ==
    /\ cpc = "done" /\ ret = "False" /\ queried = "answered" /\ arg.Account_Num = "AC1"
    /\ Case_details = <<Case("AC1", "CR1", "Abandoned"), Case("AC2", "CR1", "Open")>>

\* C9: whenever the lookup failed, in the connection block or in the query,
\* has_open_case_for_account has returned the boolean False.
C9_FalseOnAnyFailure ==
    (cpc = "done" /\ queried # "answered") => ret = "False"

\* the part of C9 that holds: a query that raises makes the operation
\* return False
C9_FalseOnQueryFailure ==
    (cpc = "done" /\ queried = "raised") => ret = "False"

\* a case that link_accounts_from_open_cases does not skip as closed: its
\* status, lowercased, is not "close" (a case without a status is not closed)
NotClosed(c) ==
    \/ c.case_current_status = None
    \/ Lower(c.case_current_status) # "close"

C10_WitnessOnce ==
    /\ cpc = "done" /\ queried = "answered" /\ arg.customer_ref = "CR1"
    /\ Case_details = <<Case("AC2", "CR1", "Open"), Case("AC2", "CR1", "Open")>>
    /\ arg.Link_Accounts = List(<<[Account_Num |-> "AC2"]>>)

\* the step in which link_accounts_from_open_cases runs its else block
LinkBodyStep ==
    op = "link_accounts_from_open_cases" /\ cpc = "else" /\ cpc' = "finally"

\* C11: for an incident without a customer_ref, link_accounts_from_open_cases
\* issues no query on Case_details and leaves Link_Accounts without a new
\* account, whatever the store holds.
C11_NoQueryWithoutCustomerRef ==
    [][ (LinkBodyStep /\ arg.customer_ref = None) =>
            /\ queried' = "not issued"
            /\ AddedAccounts = {}
      ]_vars

\* no two entries of the list have the same Account_Num
NoDuplicateEntries(items) ==
    \A i, j \in 1..Len(items) : items[i].Account_Num = items[j].Account_Num => i = j

\* C12 as stated: after the operation has returned the incident (connection
\* made, query answered), Link_Accounts has no two entries with the same
\* Account_Num, for every incoming incident.
C12_NeverDuplicateEntries ==
    (op = "link_accounts_from_open_cases" /\ cpc = "done"
        /\ ret = "incident_dict" /\ queried = "answered") =>
        NoDuplicateEntries(ListItems(arg))

\* C12 as amended: the operation keeps Link_Accounts free of duplicates: a
\* step taken with no two entries of the same Account_Num leaves no two such
\* entries, so an incoming incident without duplicates returns without them.
C12_KeepsEntriesDistinct ==
    [][ NoDuplicateEntries(ListItems(arg)) => NoDuplicateEntries(ListItems(arg')) ]_vars

\* C12 witness: an incident that came with AC2 linked met two open cases of
\* AC2 and one account more, and returned with each account once.
C12_Witness ==
    /\ op = "link_accounts_from_open_cases" /\ cpc = "done" /\ queried = "answered"
    /\ Case_details = <<Case("AC2", "CR1", "Open"), Case("AC3", "CR1", "Open")>>
    /\ arg.Link_Accounts = List(<<[Account_Num |-> "AC2"], [Account_Num |-> "AC3"]>>)

\* C13: once the operation has run its query and loop, running them again on
\* the incident it returned, against the same store, gives the same
\* Link_Accounts, entry for entry; so does a second run whose query raises.
C13_LinkIdempotent ==
    (op = "link_accounts_from_open_cases" /\ cpc \in {"finally", "done"}
        /\ queried = "answered") =>
        /\ LinkedIncident(Case_details, arg).Link_Accounts = arg.Link_Accounts
        /\ List(ListItems(arg)) = arg.Link_Accounts

\* C13 witness: the first run appended two accounts to a populated list.
C13_Witness ==
    /\ op = "link_accounts_from_open_cases" /\ cpc = "done" /\ queried = "answered"
    /\ Case_details = <<Case("AC3", "CR1", "Open"), Case("AC1", "CR1", "Case Close")>>
    /\ arg.Link_Accounts = List(<<[Account_Num |-> "AC2"], [Account_Num |-> "AC3"],
                                  [Account_Num |-> "AC1"]>>)

\* C14: link_accounts_from_open_cases returns the incident on every path.
C14_AlwaysReturnsIncident ==
    (op = "link_accounts_from_open_cases" /\ cpc = "done") => ret = "incident_dict"

\* the part of C14 that holds: once the connection is made, the incident is
\* returned whether the query is answered or raises
C14_IncidentAfterConnect ==
    (op = "link_accounts_from_open_cases" /\ cpc = "done" /\ cclient = "closed"
        /\ ret # "incident_dict") => queried = "not issued"

\* ------------------------------------------------------------------------
\* Further properties of create_incident (specification Spec)
\* ------------------------------------------------------------------------

\* C15: a call that returns success returns, as data, the Incident_Id of the
\* document it inserted.
C15_ResponseIdIsInsertedId ==
    \A p \in Calls :
        (pc[p] \in {"finally", "done"} /\ resp[p].success) =>
            \E i \in 1..Len(Incidents) : /\ Incidents[i].oid = p
                                         /\ Incidents[i].Incident_Id = resp[p].data

\* the part of C15 that holds: the identifiers agree when the filter returned
\* the record it was given
C15_SameObjectSameId ==
    \A p \in Calls :
        (pc[p] \in {"finally", "done"} /\ resp[p].success /\ same_object[p]) =>
            \E i \in 1..Len(Incidents) : /\ Incidents[i].oid = p
                                         /\ Incidents[i].Incident_Id = resp[p].data

\* C16: every document of Incidents carries the updatedAt stamp that the
\* call which inserted it set before insert_one.
C16_InsertedDocumentStamped ==
    \A i \in 1..Len(Incidents) : Incidents[i].updatedAt = Now(Incidents[i].oid)

\* the part of C16 that holds: the document is stamped when the filter
\* returned the record it was given
C16_SameObjectStamped ==
    \A i \in 1..Len(Incidents) :
        same_object[Incidents[i].oid] => Incidents[i].updatedAt = Now(Incidents[i].oid)

\* C17: in every call the client, the filter, create_index and insert_one
\* come in this order, each at most once: insert_one is attempted only after
\* the filter returned a record that is not "Error" and after create_index
\* built the unique index in the same call.
C17_StepOrder ==
    \A p \in Calls :
        /\ \A e \in {"client", "filter", "create_index", "insert_one", "inserted"} :
              CountOf(log[p], e) <= 1
        /\ Has(log[p], "filter") => log[p][1] = "client"
        /\ Has(log[p], "create_index") =>
              /\ SubSeq(log[p], 1, 3) = <<"client", "filter", "create_index">>
              /\ new_incident[p].Incident_Status = "Success"
        /\ Has(log[p], "insert_one") =>
              /\ SubSeq(log[p], 1, 4) = <<"client", "filter", "create_index", "insert_one">>
              /\ unique_index
        /\ pc[p] = "insert" => log[p] = <<"client", "filter", "create_index">>

\* C17 witness: a call went through all four steps and returned, and a call
\* whose insert_one met the duplicate key returned without another attempt.
C17_Witness ==
    \E p, q \in Calls :
        /\ Returned(p)
        /\ log[p] = <<"client", "filter", "create_index", "insert_one", "inserted", "close">>
        /\ Returned(q)
        /\ log[q] = <<"client", "filter", "create_index", "insert_one", "close">>
        /\ resp[q].error.kind = "DuplicateKeyError"

\* ------------------------------------------------------------------------
\* Further properties of the correlator
\* ------------------------------------------------------------------------

\* C18 (SpecCorr): either correlator operation closes the client it
\* constructed exactly once by the time it returns and never more than once;
\* an operation that constructed none closes nothing.
C18_CorrelatorClosesOnce ==
    /\ closes <= 1
    /\ cclient = "closed" => closes = 1
    /\ cpc \in {"start", "else", "finally"} => closes = 0
    /\ cpc = "else" => cclient = "open"
    /\ cpc = "done" => /\ cclient # "open"
                       /\ closes = (IF cclient = None THEN 0 ELSE 1)
                       /\ queried # "not issued" => cclient = "closed"

\* C18 witness: link_accounts_from_open_cases returned after its query raised,
\* with its client closed once.
C18_Witness ==
    /\ op = "link_accounts_from_open_cases" /\ cpc = "done"
    /\ queried = "raised" /\ cclient = "closed" /\ closes = 1

\* C18 second witness: has_open_case_for_account returned after the ping
\* raised, with the client it had constructed closed once.
C18_WitnessPing ==
    /\ op = "has_open_case_for_account" /\ cpc = "done"
    /\ queried = "not issued" /\ ret = "None" /\ cclient = "closed" /\ closes = 1

\* C19 (SpecLink): no entry of Link_Accounts is the incident's own
\* Account_Num; stated for an incident that has a customer_ref and a store
\* whose cases all have status "Open".
C19_OwnAccountNeverLinked ==
    (/\ op = "link_accounts_from_open_cases"
     /\ arg.customer_ref # None
     /\ \A c \in CaseSet : c.case_current_status = "Open") =>
        \A i \in 1..Len(ListItems(arg)) :
            ListItems(arg)[i].Account_Num # arg.Account_Num

\* the terminal values of line 67, lowercased
LowerTerminalStatuses == { Lower(t) : t \in TerminalStatuses }

\* a status that is a terminal value up to letter case
TerminalIgnoringCase(status) ==
    status # None /\ Lower(status) \in LowerTerminalStatuses

\* C20 (SpecOpen): when the connection and the query succeed and every case
\* of the incident's account has a status that equals a terminal value up to
\* letter case, has_open_case_for_account returns False.
C20_StatusComparedIgnoringCase ==
    (op = "has_open_case_for_account" /\ cpc = "done" /\ queried = "answered"
        /\ arg.Account_Num # None
        /\ \A i \in 1..Len(Case_details) :
              Case_details[i].account_no = arg.Account_Num =>
                  TerminalIgnoringCase(Case_details[i].case_current_status))
    => ret = "False"

====
